---- MODULE Spec2Model ----
(***************************************************************************)
(* The generational loop of genepro's Evolution class (src/genepro/evo.py): *)
(* construction, evolve(), _must_terminate(), _initialize_population() and  *)
(* _perform_generation(), with the elitism / replacement policy, the        *)
(* evaluation counter, the best-of-generation archive and the replay        *)
(* memory.                                                                  *)
(*                                                                          *)
(* An individual is a record [fitness, elite, id, consts, steps]: fitness  *)
(* is the attribute the code reads and writes; consts is the number of      *)
(* constants get_subtrees_consts() finds in its tree and steps the number   *)
(* of optimizer steps applied to them; elite is its provenance within the   *)
(* generation that produced the current population: 0 for an individual     *)
(* built by the generator or the variation pipeline, r >= 1 for a deep copy *)
(* of the rank-r entry of the elites snapshot of the previous population;   *)
(* id is the identity of the object: two records with one id are one        *)
(* object. Identities matter up to equality only, so every step renumbers   *)
(* the objects of population and best_of_gens by the first position they    *)
(* hold.                                                                    *)
(* The fitness function, the selection operator, the variation pipeline and *)
(* the replay memory type are collaborators: what they return is an input   *)
(* of the action that calls them. The replay contribution of one evaluation *)
(* has replay_len transitions, and memory is a number of transitions.       *)
(***************************************************************************)
EXTENDS Integers, Sequences, FiniteSets, TLC

\* ---------------------------------------------------------------- bounds
MaxPop == 2        \* pop_size ranges over 1..MaxPop, a seed has 1..MaxPop members
MaxFit == 1        \* a fitness value is one of 0..MaxFit
MaxGens == 1       \* max_gens ranges over 0..MaxGens; a run is cut after MaxGens generations
MaxEvals == 2      \* max_evals ranges over 0..MaxEvals
MaxNow == 1        \* the wall clock ranges over 0..MaxNow; max_time too
ElitismDen == 4    \* elitism is a fraction elitism / ElitismDen
MaxJobs == 2       \* n_jobs ranges over 1..MaxJobs

\* None, for max_evals, max_gens, max_time and memory
None == 0 - 1

\* batch_size of the gradient refinement
BatchSize == 128

\* the iterations of the gradient refinement
RefinerSteps == 500

Fit == 0..MaxFit

VARIABLES
  pop_size,          \* self.pop_size
  elitism,           \* self.elitism, as the numerator of elitism / ElitismDen
  max_evals,         \* self.max_evals
  max_gens,          \* self.max_gens
  max_time,          \* self.max_time
  initialPopulation, \* self.initialPopulation, the constructor's argument
  selection_fun,     \* "fun" in self.selection
  variation_fun,     \* "fun" in every descriptor of crossovers, mutations, coeff_opts
  leaf_consts,       \* self.leaf_nodes holds a constant, so that trees may have constants
  replay_len,        \* the transitions in the replay contribution that
                     \* self.fitness_function returns for one evaluation
  n_jobs,            \* self.n_jobs
  population,        \* self.population
  num_gens,          \* self.num_gens
  num_evals,         \* self.num_evals
  start_time,        \* self.start_time
  elapsed_time,      \* self.elapsed_time
  best_of_gens,      \* self.best_of_gens
  memory,            \* self.memory: None, or the number of transitions it holds
  now,               \* time.time()
  fitness_calls,     \* fitness_function invocations of the batches that have returned
  pc,                \* where the caller of evolve() is
  terminated,        \* evolve() has returned because _must_terminate() returned True
  engine             \* the evaluation batch a Parallel(n_jobs=...) call is working on

config == <<pop_size, elitism, max_evals, max_gens, max_time, initialPopulation,
            selection_fun, variation_fun, leaf_consts, replay_len, n_jobs>>

vars == <<pop_size, elitism, max_evals, max_gens, max_time, initialPopulation,
          selection_fun, variation_fun, leaf_consts, replay_len, n_jobs,
          population, num_gens, num_evals, start_time, elapsed_time,
          best_of_gens, memory, now, fitness_calls, pc, terminated, engine>>

\* what a run of evolve() reads and writes
run == <<population, num_gens, num_evals, start_time, elapsed_time,
         best_of_gens, memory, now, fitness_calls, pc, terminated>>

\* ---------------------------------------------------------------- helpers

\* np.argmax([t.fitness for t in s]): the first index of a maximal fitness
ArgMax(s) ==
  CHOOSE i \in 1..Len(s) :
    /\ \A j \in 1..Len(s) : s[j].fitness <= s[i].fitness
    /\ \A j \in 1..(i - 1) : s[j].fitness < s[i].fitness

\* np.argmin([t.fitness for t in s]): the first index of a minimal fitness
ArgMin(s) ==
  CHOOSE i \in 1..Len(s) :
    /\ \A j \in 1..Len(s) : s[j].fitness >= s[i].fitness
    /\ \A j \in 1..(i - 1) : s[j].fitness > s[i].fitness

\* s with the element at index i taken out (list.remove of that object)
Remove(s, i) == [j \in 1..(Len(s) - 1) |-> IF j < i THEN s[j] ELSE s[j + 1]]

\* sorted(s, key=lambda x: x.fitness, reverse=True): stable, descending
RECURSIVE Sorted(_)
Sorted(s) ==
  IF s = <<>> THEN <<>>
  ELSE <<s[ArgMax(s)]>> \o Sorted(Remove(s, ArgMax(s)))

\* s[:n]
Take(s, n) == SubSeq(s, 1, IF n < Len(s) THEN n ELSE Len(s))

\* int(self.elitism * self.pop_size)
EliteCount == (elitism * pop_size) \div ElitismDen

\* elites = deepcopy(sorted(self.population, ...)[:elite_count])
Elites == Take(Sorted(population), EliteCount)

\* ---------------------------------------------------------------- _must_terminate

\* Python's truth value of a bound: None and 0 are both false
Truthy(bound) == bound # None /\ bound # 0

\* _must_terminate with the generation test one generation early
MustTerminateEarly(e) ==
  IF Truthy(max_time) /\ e >= max_time THEN TRUE
  ELSE IF Truthy(max_evals) /\ num_evals >= max_evals THEN TRUE
  ELSE IF Truthy(max_gens) /\ num_gens + 1 >= max_gens THEN TRUE
  ELSE FALSE

\* the value _must_terminate returns once it has set elapsed_time to e
MustTerminate(e) ==
  IF Truthy(max_time) /\ e >= max_time THEN TRUE
  ELSE IF Truthy(max_evals) /\ num_evals >= max_evals THEN TRUE
  ELSE IF Truthy(max_gens) /\ num_gens >= max_gens THEN TRUE
  ELSE FALSE

\* ---------------------------------------------------------------- evaluation

\* the cost of a batch stored with the elite batch counted in
StoreCostWithElites(n) == n + pop_size + EliteCount

\* self.num_evals += self.pop_size
StoreCost(n) == n + pop_size

\* memory = memories[0]; memory += memories[m] for the other members of the
\* pop_size evaluations of a batch
BatchMemory == pop_size * replay_len

\* memory + self.memory: the aggregate of the offspring batch concatenated with
\* the old memory; on a memory type that accepts None, None adds nothing
Concat(old) == IF old = None THEN BatchMemory ELSE BatchMemory + old

\* the refinement with the test len(self.memory) >= batch_size
RefinedAtBatchSize(best, mem) ==
  IF best.consts > 0 /\ mem >= BatchSize
  THEN [best EXCEPT !.steps = best.steps + RefinerSteps]
  ELSE best

\* the champion after the refinement loop: each of its RefinerSteps iterations
\* takes an optimizer step if the champion has constants and the memory holds
\* more than batch_size transitions, and does nothing otherwise
Refined(best, mem) ==
  IF best.consts > 0 /\ mem > BatchSize
  THEN [best EXCEPT !.steps = best.steps + RefinerSteps]
  ELSE best

\* ---------------------------------------------------------------- objects

\* the n-th object identity that neither population nor best_of_gens holds
Fresh(n) == Len(population) + Len(best_of_gens) + n

\* copy.deepcopy(x): the value of x in a new object, the n-th of its step
DeepCopy(x, n) == [x EXCEPT !.id = Fresh(n)]

\* the objects of the list all renumbered by the first position they hold in it
Renumbered(all) ==
  [i \in 1..Len(all) |->
     [all[i] EXCEPT !.id =
        CHOOSE j \in 1..i :
          /\ all[j].id = all[i].id
          /\ \A k \in 1..(j - 1) : all[k].id # all[i].id]]

\* self.population and self.best_of_gens as the lists pop and archive, their
\* objects renumbered
Heap(pop, archive) ==
  LET all == Renumbered(pop \o archive)
  IN [population |-> SubSeq(all, 1, Len(pop)),
      best_of_gens |-> SubSeq(all, Len(pop) + 1, Len(all))]

\* the archive entry stored without a copy
ArchivedAlias(best) == best

\* copy.deepcopy(best), the entry appended to best_of_gens
Archived(best) == DeepCopy(best, 3 * pop_size + 2)

\* ---------------------------------------------------------------- replacement

\* for i in range(1, elite_count): remove the lowest, append deepcopy(elites[i]);
\* j is the 1-based position of elites[i], so the loop starts at j = 2
RECURSIVE ReplaceElites(_, _, _)
ReplaceElites(p, elites, j) ==
  IF j > EliteCount THEN p
  ELSE ReplaceElites(Append(Remove(p, ArgMin(p)),
                            DeepCopy(elites[j], 2 * pop_size + j)),
                     elites, j + 1)

\* the reinsertion with argmax and argmin exchanged
ReinsertLowest(p) ==
  Append(Remove(p, ArgMax(p)), DeepCopy(p[ArgMin(p)], 3 * pop_size + 1))

\* best = population[argmax]; remove the lowest; append deepcopy(best)
ReinsertBest(p) ==
  Append(Remove(p, ArgMin(p)), DeepCopy(p[ArgMax(p)], 3 * pop_size + 1))

\* the i-th individual's fitness stored from the end of the returned list
StoredReversed(fitnesses, i) == fitnesses[Len(fitnesses) + 1 - i]

\* batch[i].fitness = fitnesses[0][i]: the value stored in the i-th individual
\* of a batch
Stored(fitnesses, i) == fitnesses[i]

\* pop_size freshly built individuals with the fitnesses f stored in them: the
\* random population of line 171, or the offspring of the pop_size parents
Offspring(f, c) ==
  [i \in 1..pop_size |->
     [fitness |-> Stored(f, i), elite |-> 0, id |-> Fresh(i),
      consts |-> c[i], steps |-> 0]]

\* the numbers of constants a new tree may have (0, or 1 for any positive number)
ConstCounts == IF leaf_consts THEN {0, 1} ELSE {0}

\* the deep copies elites of the top of the population after their evaluation:
\* entry r >= 2 carries the fitness f[r] returned for it; the fitness returned
\* for elites[0] is stored in a copy that nothing reads afterwards (the loop of
\* line 326 starts at 1)
Evaluated(elites, f) ==
  [r \in 1..Len(elites) |->
     [elites[r] EXCEPT !.fitness = IF r = 1 THEN elites[1].fitness
                                   ELSE Stored(f, r),
                       !.elite = r,
                       !.id = Fresh(pop_size + r)]]

\* the elites snapshot after its evaluation
EvaluatedElites(f) == Evaluated(Elites, f)

\* ---------------------------------------------------------------- Init

\* the termination bounds a caller may pass: None or a number
EvalBounds == {None} \cup 0..MaxEvals
GenBounds == {None} \cup 0..MaxGens
TimeBounds == {None} \cup 0..MaxNow

\* the seed population of n distinct objects with the fitnesses f
Seed(n, f) ==
  [i \in 1..n |->
     [fitness |-> f[i], elite |-> 0, id |-> i, consts |-> 0, steps |-> 0]]

\* the seed populations a caller may pass: evaluated individuals, any length
Seeds ==
  UNION {{Seed(n, f) : f \in [1..n -> Fit]} : n \in 1..MaxPop}

\* the seed populations of individuals some of which were never evaluated: their
\* fitness is None here, whatever the tree type holds before an evaluation
UnevaluatedSeeds ==
  UNION {{Seed(n, f) : f \in [1..n -> Fit \cup {None}]} : n \in 1..MaxPop}
    \ Seeds

\* no Parallel call is running
NoBatch ==
  [phase |-> "none", size |-> 0, calls |-> <<>>, returned |-> <<>>,
   running |-> {}, done |-> <<>>, assigned |-> <<>>]

\* the state __init__ leaves: the arguments as attributes (a descriptor gets an
\* empty "kwargs" if it has none, nothing else of it is looked at), the counters
\* at 0, the archive empty, no memory, population bound to initialPopulation
InitWith(P, E, ME, MG, MT, S, D, C, R, J) ==
  /\ pop_size \in P
  /\ elitism \in E
  /\ max_evals \in ME
  /\ max_gens \in MG
  /\ max_time \in MT
  /\ initialPopulation \in S
  /\ selection_fun \in D
  /\ variation_fun \in D
  /\ leaf_consts \in C
  /\ replay_len \in R
  /\ n_jobs \in J
  /\ population = initialPopulation
  /\ num_gens = 0
  /\ num_evals = 0
  /\ start_time = 0
  /\ elapsed_time = 0
  /\ best_of_gens = <<>>
  /\ memory = None
  /\ now = 0
  /\ fitness_calls = 0
  /\ pc = "idle"
  /\ terminated = FALSE
  /\ engine = NoBatch

\* every population configuration, stopped by max_gens or by the cut
Init ==
  InitWith(1..MaxPop, 0..ElitismDen, {None}, {None} \cup 1..MaxGens, {None},
           {<<>>} \cup Seeds, {TRUE},
           {FALSE}, {1}, {1})

\* every combination of termination bounds, full elitism, unfit seeds
InitTerm ==
  InitWith(1..MaxPop, {ElitismDen}, EvalBounds, GenBounds, TimeBounds,
           {<<>>} \cup {s \in Seeds : \A i \in 1..Len(s) : s[i].fitness = 0}, {TRUE},
           {FALSE}, {1}, {1})

\* runs bounded by max_gens alone, every elitism, unfit seeds
InitGens ==
  InitWith(1..MaxPop, 0..ElitismDen, {None}, 1..MaxGens, {None},
           {<<>>} \cup {s \in Seeds : \A i \in 1..Len(s) : s[i].fitness = 0}, {TRUE},
           {FALSE}, {1}, {1})

\* seeded runs, the seed evaluated or not, full elitism
InitSeeded ==
  InitWith(1..MaxPop, {ElitismDen}, {None}, {None} \cup 1..MaxGens, {None},
           Seeds \cup UnevaluatedSeeds, {TRUE},
           {FALSE}, {1}, {1})

\* runs with descriptors that have or lack "fun", full elitism, unfit seeds
InitDescriptors ==
  InitWith(1..MaxPop, {ElitismDen}, {None}, {None} \cup 1..MaxGens, {None},
           {<<>>} \cup {s \in Seeds : \A i \in 1..Len(s) : s[i].fitness = 0}, BOOLEAN,
           {FALSE}, {1}, {1})

\* random initializations of trees with or without constants, by a fitness
\* function whose pop_size contributions stay below, reach or exceed batch_size;
\* half of the population is elite, no termination bound
InitRefiner ==
  InitWith(1..MaxPop, {ElitismDen \div 2}, {None}, {None}, {None},
           {<<>>}, {TRUE},
           BOOLEAN, {BatchSize \div 2, BatchSize \div 2 + 1}, {1})

\* an object about to evaluate batches, every pop_size, elitism and n_jobs
InitBatch ==
  InitWith(1..MaxPop, 0..ElitismDen, {None}, {None}, {None}, {<<>>}, {TRUE},
           {FALSE}, {1}, 1..MaxJobs)

\* ---------------------------------------------------------------- actions

\* self.population and self.best_of_gens become the lists of heap
StoreHeap(heap) ==
  /\ population' = heap.population
  /\ best_of_gens' = heap.best_of_gens

\* the gradient refinement of best = pop[b], in place
RefineBest(pop, b) == [pop EXCEPT ![b] = Refined(pop[b], BatchMemory)]

\* self.best_of_gens.append(deepcopy(best)) for best = pop[b], pop the population
Archive(pop, b) == Heap(pop, Append(best_of_gens, Archived(pop[b])))

\* the population and the archive _initialize_population leaves for the
\* evaluated random population: its best refined, then archived
InitialHeap(random) ==
  Archive(RefineBest(random, ArgMax(random)), ArgMax(random))

\* the population and the archive _perform_generation leaves once the elites
\* are back in the offspring population: best is taken (line 333), the lowest
\* removed and a copy of best appended, another copy archived
FinalHeap(replaced) ==
  Heap(ReinsertBest(replaced),
       Append(best_of_gens, Archived(replaced[ArgMax(replaced)])))

\* _initialize_population on the fitnesses f returned for the random population,
\* whose trees have c constants
InitializePopulation(f, c) ==
  /\ StoreHeap(InitialHeap(Offspring(f, c)))
  /\ memory' = BatchMemory
  /\ num_evals' = StoreCost(num_evals)
     /\ fitness_calls' = fitness_calls + pop_size

\* evolve() up to the loop: set the start time, initialize unless a population exists
Evolve ==
  /\ pc \in {"idle", "returned"}
  /\ start_time' = now
  /\ IF population = <<>>
       THEN \E f \in [1..pop_size -> Fit], c \in [1..pop_size -> ConstCounts] :
              InitializePopulation(f, c)
       ELSE UNCHANGED <<population, memory, num_evals, best_of_gens, fitness_calls>>
  /\ pc' = "test"
  /\ UNCHANGED <<config, num_gens, elapsed_time, now, terminated, engine>>

\* the loop test: while not self._must_terminate()
MustTerminateStep ==
  /\ pc = "test"
  /\ elapsed_time' = now - start_time
  /\ pc' = IF MustTerminate(now - start_time) THEN "returned" ELSE "gen"
  /\ terminated' = (terminated \/ MustTerminate(now - start_time))
  /\ UNCHANGED <<config, population, num_gens, num_evals, start_time,
                 best_of_gens, memory, now, fitness_calls, engine>>

\* the exceptions _perform_generation raises whatever the collaborators return:
\* self.selection["fun"] of a descriptor without it, fitnesses[1] of an empty
\* elite batch, elites[i] past a short snapshot
MustRaise == ~selection_fun \/ Elites = <<>> \/ Len(Elites) < EliteCount

\* _perform_generation, run to its end: fe and fo are the fitnesses returned for
\* the elites and the offspring
PerformGeneration ==
  /\ pc = "gen"
  /\ num_gens < MaxGens
  /\ ~MustRaise
  /\ \E fe \in [2..Len(Elites) -> Fit], fo \in [1..pop_size -> Fit],
        co \in [1..pop_size -> ConstCounts] :
       /\ StoreHeap(FinalHeap(ReplaceElites(Offspring(fo, co),
                                            EvaluatedElites(fe), 2)))
       /\ memory' = Concat(memory)
       /\ num_evals' = StoreCost(num_evals)
  /\ num_gens' = num_gens + 1
  /\ fitness_calls' = fitness_calls + Len(Elites) + pop_size
  /\ pc' = "test"
  /\ UNCHANGED <<config, start_time, elapsed_time, now, terminated, engine>>

\* _perform_generation left by an exception in the offspring batch, with the
\* batch's memory stored before the batch is evaluated
PerformGenerationRaisesLate ==
  /\ pc = "gen"
  /\ num_gens < MaxGens
  /\ fitness_calls' = fitness_calls + Len(Elites)
  /\ memory' = Concat(memory)
  /\ pc' = "raised"
  /\ UNCHANGED <<config, population, num_gens, num_evals, start_time,
                 elapsed_time, best_of_gens, now, terminated, engine>>

\* _perform_generation left by an exception: before the elite batch returns
\* (self.selection["fun"] or an applied operator's "fun" missing, the fitness
\* function raising, or fitnesses[1] of an empty batch), or after it (elites[i]
\* past a short snapshot, the fitness function raising in the offspring batch,
\* memory + None on a memory type that rejects None); the elite batch has
\* returned its results in the second case. Nothing of self is assigned by then.
PerformGenerationRaises ==
  /\ pc = "gen"
  /\ num_gens < MaxGens
  /\ \E afterElites \in BOOLEAN :
       /\ (Elites = <<>> \/ ~selection_fun) => ~afterElites
       /\ fitness_calls' = fitness_calls + (IF afterElites THEN Len(Elites) ELSE 0)
  /\ pc' = "raised"
  /\ UNCHANGED <<config, population, num_gens, num_evals, start_time,
                 elapsed_time, best_of_gens, memory, now, terminated, engine>>

\* the wall clock advances while a generation runs
Tick ==
  /\ pc = "gen"
  /\ now < MaxNow
  /\ now' = now + 1
  /\ UNCHANGED <<config, population, num_gens, num_evals, start_time,
                 elapsed_time, best_of_gens, memory, fitness_calls, pc,
                 terminated, engine>>

Next ==
  \/ Evolve
  \/ MustTerminateStep
  \/ PerformGeneration
  \/ PerformGenerationRaises
  \/ Tick

Spec == Init /\ [][Next]_vars

\* ---------------------------------------------------------------- one batch
\* One call Parallel(n_jobs=self.n_jobs)(delayed(self.fitness_function)(t) for t
\* in batch) and the loop that stores its results, step by step. The worker
\* pool is joblib's: at most n_jobs calls run at once, they are started in the
\* order of the batch and finish in any order, and the call returns, once all
\* have finished, the list of their results in the order of the batch.

\* the controller calls Parallel on a batch: the population or the offspring
\* (pop_size individuals) or the elites (elite_count individuals)
SubmitBatch ==
  /\ engine.phase \in {"none", "assigned"}
  /\ \E n \in {pop_size, EliteCount} :
       engine' = [phase |-> "running", size |-> n,
                  calls |-> [i \in 1..n |-> 0],
                  returned |-> [i \in 1..n |-> None],
                  running |-> {}, done |-> <<>>, assigned |-> <<>>]
  /\ UNCHANGED <<config, run>>

\* a free worker starts the fitness function on the next individual of the batch
Dispatch ==
  /\ engine.phase = "running"
  /\ Cardinality(engine.running) < n_jobs
  /\ \E i \in 1..engine.size :
       /\ engine.calls[i] = 0
       /\ \A j \in 1..(i - 1) : engine.calls[j] > 0
       /\ engine' = [engine EXCEPT !.calls[i] = engine.calls[i] + 1,
                                   !.running = engine.running \cup {i}]
  /\ UNCHANGED <<config, run>>

\* a running call returns its fitness
Finish ==
  /\ engine.phase = "running"
  /\ \E i \in engine.running, v \in Fit :
       engine' = [engine EXCEPT !.returned[i] = v,
                                   !.running = engine.running \ {i},
                                   !.done = Append(engine.done, i)]
  /\ UNCHANGED <<config, run>>

\* every call has finished: Parallel returns the results in the order of the
\* batch, and the controller stores them, for i in range(len(batch))
Collect ==
  /\ engine.phase = "running"
  /\ Len(engine.done) = engine.size
  /\ engine' = [engine EXCEPT !.phase = "assigned",
                              !.assigned = [i \in 1..engine.size |->
                                              Stored(engine.returned, i)]]
  /\ UNCHANGED <<config, run>>

NextBatch ==
  \/ SubmitBatch
  \/ Dispatch
  \/ Finish
  \/ Collect

BatchSpec == InitBatch /\ [][NextBatch]_vars

\* _perform_generation is running and the cut of the model lets it finish:
\* PerformGeneration \/ PerformGenerationRaises is enabled in exactly these states
GenerationPending == pc = "gen" /\ num_gens < MaxGens

\* the loop of evolve() keeps running: a test is followed by its outcome, and a
\* generation runs to its end or to its exception. The second conjunct is
\* WF_vars(PerformGeneration \/ PerformGenerationRaises) written on states:
\* every step of the two actions leaves pc = "gen", so the action is taken or
\* disabled infinitely often exactly when GenerationPending is false infinitely
\* often.
Fairness ==
  /\ WF_vars(MustTerminateStep)
  /\ []<>(~GenerationPending)

TermSpec == InitTerm /\ [][Next]_vars /\ Fairness

GensSpec == InitGens /\ [][Next]_vars /\ Fairness

SeededSpec == InitSeeded /\ [][Next]_vars

RefinerSpec == InitRefiner /\ [][Next]_vars

DescriptorSpec == InitDescriptors /\ [][Next]_vars

\* ---------------------------------------------------------------- claims

\* _perform_generation has just been entered / has just returned
GenerationStart == pc = "gen"
GenerationEnd == pc = "test" /\ num_gens >= 1

\* the number of members of p that are copies of an entry of the elites snapshot
\* and whose fitness is at least f
EliteCopies(p, f) ==
  Cardinality({i \in 1..Len(p) : p[i].elite >= 1 /\ p[i].fitness >= f})

\* a run that started with _initialize_population
Initialized == initialPopulation = <<>> /\ pc # "idle"

\* C1: the archived best-of-generation fitness never decreases from one entry of
\* best_of_gens to the next (stated for the runs that start with a random
\* initialization).
C1_BestMonotonic ==
  Initialized =>
    \A g \in 2..Len(best_of_gens) :
      best_of_gens[g].fitness >= best_of_gens[g - 1].fitness

\* C2: the population holds exactly pop_size individuals at the start and at the
\* end of every call of _perform_generation.
C2_PopulationSize ==
  (GenerationStart \/ GenerationEnd) => Len(population) = pop_size

\* C3: at the end of a generation every one of the elite_count top individuals of
\* the previous population is present in the population as a copy (stated for
\* the runs that start with a random initialization).
C3_ElitesSurvive ==
  (Initialized /\ GenerationEnd) =>
    \A r \in 1..EliteCount : \E i \in 1..Len(population) : population[i].elite = r

\* C4: a generation leaves at least elite_count - 1 copies of previous individuals
\* whose fitness is at least the elite_count-th highest fitness of the previous
\* population (stated for the runs that start with a random initialization).
C4_ElitismProperty ==
  [][(Initialized /\ num_gens' = num_gens + 1) =>
       EliteCopies(population', Sorted(population)[EliteCount].fitness)
         >= EliteCount - 1]_vars

\* C5: at every generation boundary the archive holds num_gens + 1 entries.
C5_ArchiveLength ==
  pc = "test" => Len(best_of_gens) = num_gens + 1

\* C6: after initialization and at the end of every generation g that follows it,
\* best_of_gens[g] is at least as fit as every member of the population and some
\* member of the population has exactly its fitness.
C6_BestIsMax ==
  Initialized =>
    /\ Len(best_of_gens) = num_gens + 1
    /\ \A i \in 1..Len(population) :
         best_of_gens[num_gens + 1].fitness >= population[i].fitness
    /\ \E i \in 1..Len(population) :
         best_of_gens[num_gens + 1].fitness = population[i].fitness

\* a generation has ended after an initialization, an elite was reinserted, and
\* the best of this generation is less fit than the best archived before it
C6_Witness ==
  /\ GenerationEnd
  /\ Initialized
  /\ EliteCount >= 2
  /\ best_of_gens[num_gens + 1].fitness < best_of_gens[num_gens].fitness
  /\ \A i \in 1..Len(population) :
       population[i].fitness = best_of_gens[num_gens + 1].fitness

\* C7: _must_terminate returns true exactly when some bound that is not None is
\* reached by its counter, whatever the bound's value, 0 included.
C7_TerminateIffBound ==
  pc = "test" =>
    (MustTerminate(now - start_time) <=>
       \/ (max_time # None /\ now - start_time >= max_time)
       \/ (max_evals # None /\ num_evals >= max_evals)
       \/ (max_gens # None /\ num_gens >= max_gens))

\* C8: with max_gens = G >= 1 and neither max_evals nor max_time, a run of the
\* loop of evolve() ends, and whenever evolve() returns num_gens is exactly G.
C8_ExactlyMaxGens ==
  (max_gens >= 1 /\ max_evals = None /\ max_time = None) =>
    /\ (pc = "test") ~> (pc = "returned" \/ pc = "raised")
    /\ [](pc = "returned" => num_gens = max_gens)

\* evolve() has returned from a run bounded by max_gens alone, after max_gens
\* generations
C8_Witness ==
  /\ pc = "returned"
  /\ max_gens >= 1 /\ max_evals = None /\ max_time = None
  /\ num_gens = max_gens

\* C9: when evolve() returns and neither the time bound nor the generation bound
\* is reached, num_evals is at least max_evals and less than max_evals + pop_size.
C9_EvalOvershoot ==
  ( /\ pc = "returned"
    /\ max_evals # None
    /\ ~(Truthy(max_time) /\ elapsed_time >= max_time)
    /\ ~(Truthy(max_gens) /\ num_gens >= max_gens) ) =>
    (max_evals <= num_evals /\ num_evals < max_evals + pop_size)

\* evolve() has returned on the evaluation bound alone, after a generation whose
\* batch took num_evals past the bound
C9_Witness ==
  /\ pc = "returned"
  /\ max_evals # None /\ max_gens = None /\ max_time = None
  /\ num_gens >= 1
  /\ num_evals > max_evals

\* C10: num_evals equals the number of fitness-function invocations of the
\* batches evaluated so far (initial population, elites, offspring), at every
\* generation boundary (stated for the runs that start with a random
\* initialization).
C10_EvalsCountCalls ==
  (Initialized /\ pc = "test") => num_evals = fitness_calls

\* C11: when _perform_generation starts, and so when it calls the selection
\* operator and sorts the population, every member of the population has a
\* fitness stored by an evaluation.
C11_FitnessDefined ==
  GenerationStart => \A i \in 1..Len(population) : population[i].fitness # None

\* C12: a run of evolve() never ends in an exception on an object one of whose
\* operator descriptors lacks "fun": construction rejected such a descriptor.
C12_FunCheckedAtConstruction ==
  pc = "raised" => (selection_fun /\ variation_fun)

\* C13: a step that leaves _perform_generation by an exception (the fitness
\* function raising in the elite batch or in the offspring batch) changes none of
\* population, num_gens, num_evals, best_of_gens and memory.
C13_RaiseLeavesState ==
  [][pc' = "raised" =>
       UNCHANGED <<population, num_gens, num_evals, best_of_gens, memory>>]_vars

\* a generation of an initialized run was left by an exception after its elite
\* batch had been evaluated
C13_Witness ==
  /\ pc = "raised"
  /\ Initialized
  /\ fitness_calls > num_evals
  /\ Len(population) = pop_size

\* C14: no object is held twice by the population and the archive together: an
\* entry of best_of_gens, a reinserted elite and the reinserted best are each an
\* object of their own, distinct from every member of the population and from
\* every other entry of best_of_gens.
C14_NoAliasing ==
  LET all == population \o best_of_gens
  IN \A i, j \in 1..Len(all) : i # j => all[i].id # all[j].id

\* a generation has ended in which a reinserted elite was the best: the
\* population holds it and the copy appended for it, the archive a third copy
C14_Witness ==
  /\ GenerationEnd
  /\ Initialized
  /\ Len(population) >= 2
  /\ population[1].elite >= 2
  /\ population[Len(population)].elite = population[1].elite
  /\ best_of_gens[num_gens + 1].elite = population[1].elite

\* C15: after _initialize_population, if the memory holds at most batch_size
\* transitions or the champion has no constants, no optimizer step was applied
\* to the champion: its constants, and those of its archived copy, are the ones
\* it was generated with.
C15_RefinerSkips ==
  (Initialized /\ num_gens = 0) =>
    LET best == population[ArgMax(population)]
    IN (memory <= BatchSize \/ best.consts = 0) =>
         (best.steps = 0 /\ best_of_gens[1].steps = 0)

\* an initialization has returned whose champion has constants and whose memory
\* holds exactly batch_size transitions
C15_Witness ==
  /\ Initialized
  /\ num_gens = 0
  /\ pc = "test"
  /\ memory = BatchSize
  /\ population[ArgMax(population)].consts > 0
  /\ best_of_gens[1].steps = 0

\* C16: in every evaluation batch the fitness function is called at most once
\* per individual while the batch runs and exactly once when it has returned;
\* the fitness stored in the i-th individual is the one returned by the call on
\* the i-th individual, whatever n_jobs and the order the calls finish in; and
\* nothing is stored before every call of the batch has finished.
C16_BatchOrdered ==
  /\ \A i \in 1..engine.size : engine.calls[i] <= 1
  /\ engine.assigned # <<>> =>
       (engine.phase = "assigned" /\ Len(engine.done) = engine.size)
  /\ engine.phase = "assigned" =>
       \A i \in 1..engine.size :
         /\ engine.calls[i] = 1
         /\ engine.assigned[i] = engine.returned[i]

\* a batch of two has been stored whose calls ran on two workers, finished in
\* the reverse of the batch's order and returned different fitnesses
C16_Witness ==
  /\ engine.phase = "assigned"
  /\ engine.size = 2
  /\ n_jobs >= 2
  /\ engine.done = <<2, 1>>
  /\ engine.returned[1] # engine.returned[2]

\* C17: a generation leaves in the memory every transition it held before and
\* the replay contribution of every evaluation of the generation, those of the
\* elite batch and those of the offspring batch (stated for the runs that start
\* with a random initialization).
C17_MemoryKeepsAll ==
  [][(Initialized /\ num_gens' = num_gens + 1) =>
       memory' = memory + (Len(Elites) + pop_size) * replay_len]_vars

\* C18: with elite_count 0 or 1 a generation can run to its end: in every state
\* where _perform_generation is running, collaborators that raise nothing let it
\* return (stated for the runs that start with a random initialization).
C18_SmallEliteCompletes ==
  (GenerationPending /\ Initialized /\ EliteCount <= 1) =>
    ENABLED PerformGeneration

\* C19: once evolve() has returned because the termination policy signalled the
\* stop, no later call of evolve() enters _perform_generation, whichever bound
\* caused the stop.
C19_TerminatedAbsorbing ==
  terminated => pc # "gen"

\* C20: in a run that starts with a random initialization, num_evals equals
\* pop_size * (num_gens + 1) after the initialization and at the end of every
\* generation, whatever elite_count is.
C20_EvalsFormula ==
  Initialized => num_evals = pop_size * (num_gens + 1)

\* a generation with at least two elites has ended after an initialization: its
\* elite batch was evaluated on top of the pop_size offspring
C20_Witness ==
  /\ GenerationEnd
  /\ Initialized
  /\ EliteCount >= 2
  /\ fitness_calls = num_evals + EliteCount

====
